---- MODULE Spec2Model ----
(***************************************************************************)
(* A model of BTBackup.py (berrytube-backup): the chat-log line parser,    *)
(* the play-count catalog, the probes of the target directory and of       *)
(* unavailableVideos.txt, the download filter, the download batch with its *)
(* logger, and the reconciliation of the captured errors.                  *)
(*                                                                         *)
(* Text is a sequence of symbols.  A symbol is one character, except for   *)
(* the fixed phrases the program searches for ("Now Playing:", the two     *)
(* site delimiters, "-!-", the failure phrases, "ERROR"), each of which is *)
(* one symbol: none of them overlaps itself or another, and the alphabets  *)
(* below hold no character that could spell one of them out, so a          *)
(* substring search over symbols finds what the search over characters     *)
(* finds.                                                                  *)
(***************************************************************************)
EXTENDS Integers, Sequences, FiniteSets, TLC

VARIABLES
    chatLog,             \* the raw lines the log archive serves (bytes)
    targetDir,           \* NoDir, or the set of file names in the target directory
    unavailableFile,     \* NoFile, or the set of lines of unavailableVideos.txt
    args,                \* the parsed command line: requiredPlays, noPrompt
    pc,                  \* where main is
    run,                 \* number of the current run of main
    videosById,          \* main's catalog: the Videos in insertion order
    parseErrors,         \* getVideosById's errors list
    alreadyDownloadedIds,
    knownUnavailableIds,
    videosToDownload,
    urls,                \* the part of the batch the engine has not handled yet
    loggerErrors,        \* Logger.errors
    interrupted,         \* a KeyboardInterrupt ended the batch of this run
    newlyUnavailable,    \* what processErrors gave back in this run
    fileAtStart,         \* the ids unavailableVideos.txt held when the run started
    failedThisRun,       \* the ids of the videos the engine reported an error for in this run
    failedLastRun,       \* and in the run before
    call,                \* a single function under test and its arguments
    ret                  \* what it returned

mainVars == <<chatLog, targetDir, unavailableFile, args, pc, run, videosById,
              parseErrors, alreadyDownloadedIds, knownUnavailableIds,
              videosToDownload, urls, loggerErrors, interrupted,
              newlyUnavailable, fileAtStart, failedThisRun, failedLastRun>>
unitVars == <<call, ret>>
vars == <<mainVars, unitVars>>

----------------------------------------------------------------------------
(* Bounds *)

MaxLog == 3          \* lines in the chat log a scan is run over
MaxMainLog == 2      \* lines in the chat log whole runs are made over
MaxLineWords == 4    \* words a parser input line is put together from
MaxNameWords == 5    \* words a file name is put together from
MaxErrors == 2       \* error lines handed to processErrors on its own
MaxRuns == 2         \* runs of main in a row
MaxPlays == 2        \* largest --requiredPlays tried

----------------------------------------------------------------------------
(* Text *)

NowPlaying == "Now Playing:"
AdminMarker == "-!-"
youtubeDelimiter == " ( https://youtu.be/"
vimeoDelimiter == " ( https://vimeo.com/"
\* what str.strip leaves of a delimiter at the very start of a line
StrippedYoutube == "( https://youtu.be/"
StrippedVimeo == "( https://vimeo.com/"
BadByte == "\\xff"   \* a byte that is not UTF-8
Whitespace == {" ", "\n"}
Digits == {"0", "1", "2", "3", "4", "5", "6", "7", "8", "9"}

RECURSIVE Concat(_)
Concat(ss) == IF ss = <<>> THEN <<>> ELSE Head(ss) \o Concat(Tail(ss))

SeqsUpTo(S, n) == UNION {[1..k -> S] : k \in 0..n}

Range(s) == {s[i] : i \in 1..Len(s)}

\* sub occurs in s at position i
OccursAt(s, sub, i) ==
    /\ i >= 1
    /\ i + Len(sub) - 1 <= Len(s)
    /\ \A k \in 1..Len(sub) : s[i + k - 1] = sub[k]

\* the first position of sub in s from position i on, 0 when there is none
RECURSIVE FindFrom(_, _, _)
FindFrom(s, sub, i) ==
    IF i + Len(sub) - 1 > Len(s) THEN 0
    ELSE IF OccursAt(s, sub, i) THEN i
    ELSE FindFrom(s, sub, i + 1)

\* str.find, counting positions from 1
Find(s, sub) == FindFrom(s, sub, 1)

\* sub in s
Contains(s, sub) == Find(s, sub) # 0

\* s.split(sep): the pieces between the occurrences of sep, taken left to right
RECURSIVE Split(_, _)
Split(s, sep) ==
    LET i == Find(s, sep)
    IN  IF i = 0 THEN <<s>>
        ELSE <<SubSeq(s, 1, i - 1)>> \o Split(SubSeq(s, i + Len(sep), Len(s)), sep)

RECURSIVE LStrip(_)
LStrip(s) ==
    IF s = <<>> THEN s
    ELSE IF Head(s) \in Whitespace THEN LStrip(Tail(s))
    ELSE IF Head(s) = youtubeDelimiter THEN <<StrippedYoutube>> \o Tail(s)
    ELSE IF Head(s) = vimeoDelimiter THEN <<StrippedVimeo>> \o Tail(s)
    ELSE s

RECURSIVE RStrip(_)
RStrip(s) ==
    IF s = <<>> THEN s
    ELSE IF s[Len(s)] \in Whitespace THEN RStrip(SubSeq(s, 1, Len(s) - 1))
    ELSE s

\* s.strip()
Strip(s) == RStrip(LStrip(s))

\* bytes.decode('utf-8') raises UnicodeDecodeError on a byte that is not UTF-8
Decodes(bytes) == BadByte \notin Range(bytes)

----------------------------------------------------------------------------
(* class Video *)

\* re.compile(r'^\dx\d\d$').match(title): "$" also matches before a final newline
episodeRegex(title) ==
    /\ Len(title) \in {4, 5}
    /\ title[1] \in Digits
    /\ title[2] = "x"
    /\ title[3] \in Digits
    /\ title[4] \in Digits
    /\ Len(title) = 5 => title[5] = "\n"

Raise(e) == [exc |-> e, title |-> <<>>, vidId |-> <<>>, source |-> ""]
Return(t, i, s) == [exc |-> "none", title |-> t, vidId |-> i, source |-> s]

\* title, vidId = payload.split(delimiter): the unpacking needs exactly two pieces
Unpack(payload, delimiter, source) ==
    LET pieces == Split(payload, <<delimiter>>)
    IN  IF Len(pieces) = 2 THEN Return(pieces[1], pieces[2], source)
        ELSE Raise("ValueError")

parseLogLine(logLine) ==
    IF ~Decodes(logLine) THEN Raise("UnicodeDecodeError")
    ELSE LET parts == Split(Strip(logLine), <<NowPlaying>>)
         IN  IF Len(parts) < 2 THEN Raise("IndexError")
             ELSE LET payload == parts[2]
                  IN  IF Contains(payload, <<youtubeDelimiter>>)
                          THEN Unpack(payload, youtubeDelimiter, "yt")
                      ELSE IF Contains(payload, <<vimeoDelimiter>>)
                          THEN Unpack(payload, vimeoDelimiter, "vimeo")
                      ELSE Raise("ValueError")

\* Video(logLine), for a line parseLogLine accepts
Video(logLine) ==
    LET p == parseLogLine(logLine)
    IN  [title |-> p.title, vidId |-> p.vidId, source |-> p.source,
         playCount |-> 1, isAnEpisode |-> episodeRegex(p.title)]

incrementCount(v) == [v EXCEPT !.playCount = @ + 1]

----------------------------------------------------------------------------
(* The log reader *)

\* the lines that hold both b'-!-' and b'Now Playing:', in the order served
listAllVideoPlayLines(log) ==
    SelectSeq(log, LAMBDA line : /\ Contains(line, <<AdminMarker>>)
                                 /\ Contains(line, <<NowPlaying>>))

----------------------------------------------------------------------------
(* getVideosById *)

\* the position of the Video with this vidId in the catalog, 0 when there is none
IndexOf(videos, vidId) ==
    LET hits == {i \in 1..Len(videos) : videos[i].vidId = vidId}
    IN  IF hits = {} THEN 0 ELSE CHOOSE i \in hits : TRUE

\* the loop's turn with the bug of storing the new Video over the one already
\* in the catalog instead of counting the play
CatalogLine_Overwrites(acc, line) ==
    IF parseLogLine(line).exc # "none"
        THEN [acc EXCEPT !.errors = Append(@, line)]
    ELSE LET video == Video(line)
             i == IndexOf(acc.videos, video.vidId)
         IN  IF i # 0
                 THEN [acc EXCEPT !.videos[i] = video]
             ELSE [acc EXCEPT !.videos = Append(@, video)]

\* one turn of the loop over the lines
CatalogLine(acc, line) ==
    IF parseLogLine(line).exc # "none"
        THEN [acc EXCEPT !.errors = Append(@, line)]
    ELSE LET video == Video(line)
             i == IndexOf(acc.videos, video.vidId)
         IN  IF i # 0
                 THEN [acc EXCEPT !.videos[i] = incrementCount(@)]
             ELSE [acc EXCEPT !.videos = Append(@, video)]

RECURSIVE CatalogLines(_, _)
CatalogLines(acc, lines) ==
    IF lines = <<>> THEN acc
    ELSE CatalogLines(CatalogLine(acc, Head(lines)), Tail(lines))

getVideosById(log) ==
    CatalogLines([videos |-> <<>>, errors |-> <<>>], listAllVideoPlayLines(log))

----------------------------------------------------------------------------
(* The target directory and unavailableVideos.txt *)

\* a directory that does not exist, and one holding these names
NoDir == [exists |-> FALSE, names |-> {}]
Dir(names) == [exists |-> TRUE, names |-> names]
\* unavailableVideos.txt: absent, or holding these lines
NoFile == [exists |-> FALSE, lines |-> {}]
File(lines) == [exists |-> TRUE, lines |-> lines]
Separator == <<" ", "-", " ">>

parseId(vidTitle) ==
    LET pieces == Split(vidTitle, Separator)
        idPartition == pieces[Len(pieces)]
        dot == Find(idPartition, <<".">>)
    IN  IF dot = 0
            THEN SubSeq(idPartition, 1, Len(idPartition) - 1)   \* find gives -1: [:-1]
        ELSE SubSeq(idPartition, 1, dot - 1)

\* the list is only asked what it holds, so it is kept as a set
getAlreadyDownloadedVidIds(directory) ==
    IF ~directory.exists THEN {} ELSE {parseId(v) : v \in directory.names}

readInUnavailableVideos(file) ==
    IF ~file.exists THEN {} ELSE {Strip(v) : v \in file.lines}

----------------------------------------------------------------------------
(* filterVideos *)

\* the test with the bug of not looking at the target directory
videoShouldBeDownloaded_IgnoresDownloaded(v, downloaded, unavailable, requiredPlays) ==
    /\ v.playCount >= requiredPlays
    /\ v.vidId \notin unavailable
    /\ ~v.isAnEpisode

videoShouldBeDownloaded(v, downloaded, unavailable, requiredPlays) ==
    /\ v.playCount >= requiredPlays
    /\ v.vidId \notin downloaded
    /\ v.vidId \notin unavailable
    /\ ~v.isAnEpisode

filterVideos(videos, downloaded, unavailable, requiredPlays) ==
    SelectSeq(videos,
              LAMBDA v : videoShouldBeDownloaded(v, downloaded, unavailable, requiredPlays))

----------------------------------------------------------------------------
(* processErrors *)

ErrorDelimiter == <<":", " ">>
UnavailablePhrases == {"This video is unavailable.",
                       "This video is no longer available",
                       "Unable to download webpage"}
CopyrightPhrases == {"blocked it on copyright grounds"}
RegionPhrases == {"not available in your country"}

\* what a print of one video shows: its title, or that its key is not in the catalog
Printed(section, vidId, videos) ==
    LET i == IndexOf(videos, vidId)
    IN  [section |-> section, vidId |-> vidId, known |-> i # 0,
         title |-> IF i # 0 THEN videos[i].title ELSE <<>>]

\* one section of the report: printError for each error that holds one of the
\* phrases; error.split(': ')[1] raises IndexError when the line has no ": "
RECURSIVE printSection(_, _, _, _, _)
printSection(acc, errors, phrases, section, videos) ==
    IF acc.exc # "none" \/ errors = <<>> THEN acc
    ELSE LET error == Head(errors)
             pieces == Split(error, ErrorDelimiter)
         IN  IF Range(error) \cap phrases = {}
                 THEN printSection(acc, Tail(errors), phrases, section, videos)
             ELSE IF Len(pieces) < 2
                 THEN [acc EXCEPT !.exc = "IndexError"]
             ELSE printSection(
                      [acc EXCEPT !.printed = Append(@, Printed(section, pieces[2], videos))],
                      Tail(errors), phrases, section, videos)

\* the full error log: every error's id goes into newlyUnavailable
RECURSIVE fullErrorLog(_, _, _)
fullErrorLog(acc, errors, videos) ==
    IF acc.exc # "none" \/ errors = <<>> THEN acc
    ELSE LET pieces == Split(Head(errors), ErrorDelimiter)
         IN  IF Len(pieces) < 2
                 THEN [acc EXCEPT !.exc = "IndexError"]
             ELSE fullErrorLog(
                      [acc EXCEPT !.newlyUnavailable = @ \cup {pieces[2]},
                                  !.printed = Append(@, Printed("FULL", pieces[2], videos))],
                      Tail(errors), videos)

\* The report is kept as the list of videos printed, section by section; the
\* UnicodeEncodeError branches only change how a line is printed.
processErrors(errors, videos) ==
    LET start == [exc |-> "none", printed |-> <<>>, newlyUnavailable |-> {}]
        unavailable == printSection(start, errors, UnavailablePhrases, "UNAVAILABLE", videos)
        copyright == printSection(unavailable, errors, CopyrightPhrases, "COPYRIGHT", videos)
        region == printSection(copyright, errors, RegionPhrases, "REGION", videos)
    IN  fullErrorLog(region, errors, videos)

----------------------------------------------------------------------------
(* performDownload and the download engine *)

Url(video) ==
    IF video.source = "yt"
        THEN [site |-> "https://www.youtube.com/watch?v=", vidId |-> video.vidId]
    ELSE [site |-> "https://vimeo.com/", vidId |-> video.vidId]

\* the file the engine writes under outtmpl "%(title)s - %(id)s.%(ext)s"
OutputName(title, vidId) == title \o Separator \o vidId \o <<".", "mp4">>

\* The error lines the engine may hand to Logger.error for one video: the
\* video's id between two ": ", a network failure that names no id, and a
\* line with no ": " in it.
EngineMessages(vidId) ==
    { <<"ERROR">> \o ErrorDelimiter \o vidId \o ErrorDelimiter \o <<"This video is unavailable.">>,
      <<"ERROR">> \o ErrorDelimiter \o <<"Unable to download webpage">> \o ErrorDelimiter \o <<"HTTP Error 404">>,
      <<"ERROR", " ", "giving up after 10 retries">> }

----------------------------------------------------------------------------
(* main *)

NoCall == [fn |-> "none"]
Pending == [done |-> FALSE]
Returned(value) == [done |-> TRUE, value |-> value]
NoResult == [exc |-> "not called", printed |-> <<>>, newlyUnavailable |-> {}]

\* what the target directory holds once performDownload has made sure it exists
mkdir(directory) == IF ~directory.exists THEN Dir({}) ELSE directory

\* main, from its start to the prompt: it ends at once when nothing passes the
\* filter, and goes straight to performDownload under --yes
Scan ==
    /\ pc = "start"
    /\ LET catalog == getVideosById(chatLog)
       IN  /\ videosById' = catalog.videos
           /\ parseErrors' = catalog.errors
    /\ alreadyDownloadedIds' = getAlreadyDownloadedVidIds(targetDir)
    /\ knownUnavailableIds' = readInUnavailableVideos(unavailableFile)
    /\ fileAtStart' = knownUnavailableIds'
    /\ videosToDownload' = filterVideos(videosById', alreadyDownloadedIds',
                                        knownUnavailableIds', args.requiredPlays)
    /\ IF Len(videosToDownload') = 0
           THEN pc' = "done" /\ UNCHANGED <<targetDir, urls>>
       ELSE IF args.noPrompt
           THEN /\ pc' = "download"
                /\ targetDir' = mkdir(targetDir)
                /\ urls' = [i \in 1..Len(videosToDownload') |-> Url(videosToDownload'[i])]
       ELSE pc' = "prompt" /\ UNCHANGED <<targetDir, urls>>
    /\ UNCHANGED <<chatLog, unavailableFile, args, run, loggerErrors, interrupted,
                   newlyUnavailable, failedThisRun, failedLastRun, unitVars>>

\* input("Do you want to continue? (yes/no)")
Prompt ==
    /\ pc = "prompt"
    /\ \E answer \in {"y", "yes", "no", ""} :
          IF answer = "y" \/ answer = "yes"
              THEN /\ pc' = "download"
                   /\ targetDir' = mkdir(targetDir)
                   /\ urls' = [i \in 1..Len(videosToDownload) |-> Url(videosToDownload[i])]
          ELSE pc' = "done" /\ UNCHANGED <<targetDir, urls>>
    /\ UNCHANGED <<chatLog, unavailableFile, args, run, videosById, parseErrors,
                   alreadyDownloadedIds, knownUnavailableIds, videosToDownload,
                   loggerErrors, interrupted, newlyUnavailable, fileAtStart,
                   failedThisRun, failedLastRun, unitVars>>

\* the engine downloads the next url of the batch and writes the file under
\* outtmpl; the title the site gives is taken to be the one the chat log gave
EngineDownloads ==
    /\ pc = "download"
    /\ urls # <<>>
    /\ LET vidId == Head(urls).vidId
           title == videosById[IndexOf(videosById, vidId)].title
       IN  targetDir' = Dir(targetDir.names \cup {OutputName(title, vidId)})
    /\ urls' = Tail(urls)
    /\ UNCHANGED <<chatLog, unavailableFile, args, pc, run, videosById, parseErrors,
                   alreadyDownloadedIds, knownUnavailableIds, videosToDownload,
                   loggerErrors, interrupted, newlyUnavailable, fileAtStart,
                   failedThisRun, failedLastRun, unitVars>>

\* the engine fails on the next url and reports it: Logger.error appends the
\* message, and 'ignoreerrors' lets the batch go on
LoggerError ==
    /\ pc = "download"
    /\ urls # <<>>
    /\ \E msg \in EngineMessages(Head(urls).vidId) :
          loggerErrors' = Append(loggerErrors, msg)
    /\ failedThisRun' = failedThisRun \cup {Head(urls).vidId}
    /\ urls' = Tail(urls)
    /\ UNCHANGED <<chatLog, targetDir, unavailableFile, args, pc, run, videosById,
                   parseErrors, alreadyDownloadedIds, knownUnavailableIds,
                   videosToDownload, interrupted, newlyUnavailable, fileAtStart,
                   failedLastRun, unitVars>>

\* KeyboardInterrupt during ydl.download: caught, performDownload returns the logger
KeyboardInterrupt ==
    /\ pc = "download"
    /\ urls # <<>>
    /\ interrupted' = TRUE
    /\ pc' = "reconcile"
    /\ UNCHANGED <<chatLog, targetDir, unavailableFile, args, run, videosById,
                   parseErrors, alreadyDownloadedIds, knownUnavailableIds,
                   videosToDownload, urls, loggerErrors, newlyUnavailable,
                   fileAtStart, failedThisRun, failedLastRun, unitVars>>

\* ydl.download returns at the end of the batch
ReturnLogger ==
    /\ pc = "download"
    /\ urls = <<>>
    /\ pc' = "reconcile"
    /\ UNCHANGED <<chatLog, targetDir, unavailableFile, args, run, videosById,
                   parseErrors, alreadyDownloadedIds, knownUnavailableIds,
                   videosToDownload, urls, loggerErrors, interrupted,
                   newlyUnavailable, fileAtStart, failedThisRun, failedLastRun, unitVars>>

\* main after performDownload: processErrors when there are errors, then the
\* write of unavailableVideos.txt; an exception out of processErrors ends the
\* process before the write
Reconcile ==
    /\ pc = "reconcile"
    /\ LET result == IF Len(loggerErrors) > 0
                         THEN processErrors(loggerErrors, videosById)
                     ELSE NoResult
       IN  /\ newlyUnavailable' = result
           /\ IF result.exc \notin {"none", "not called"}
                  THEN /\ pc' = "crashed"
                       /\ UNCHANGED <<knownUnavailableIds, unavailableFile>>
              ELSE /\ pc' = "done"
                   /\ knownUnavailableIds' = knownUnavailableIds \cup result.newlyUnavailable
                   /\ unavailableFile' = File(knownUnavailableIds')
    /\ UNCHANGED <<chatLog, targetDir, args, run, videosById, parseErrors,
                   alreadyDownloadedIds, videosToDownload, urls, loggerErrors,
                   interrupted, fileAtStart, failedThisRun, failedLastRun, unitVars>>

\* the tool is started again, over the same chat logs
NextRun ==
    /\ pc \in {"done", "crashed"}
    /\ run < MaxRuns
    /\ run' = run + 1
    /\ pc' = "start"
    /\ failedLastRun' = failedThisRun
    /\ failedThisRun' = {}
    /\ videosById' = <<>>
    /\ parseErrors' = <<>>
    /\ alreadyDownloadedIds' = {}
    /\ knownUnavailableIds' = {}
    /\ videosToDownload' = <<>>
    /\ urls' = <<>>
    /\ loggerErrors' = <<>>
    /\ interrupted' = FALSE
    /\ newlyUnavailable' = NoResult
    /\ fileAtStart' = {}
    /\ UNCHANGED <<chatLog, targetDir, unavailableFile, args, unitVars>>

----------------------------------------------------------------------------
(* The single functions, each called on its own *)

CallParseLogLine ==
    /\ call.fn = "parseLogLine"
    /\ ret = Pending
    /\ ret' = Returned(parseLogLine(call.logLine))
    /\ UNCHANGED <<call, mainVars>>

CallParseId ==
    /\ call.fn = "parseId"
    /\ ret = Pending
    /\ ret' = Returned(parseId(call.vidTitle))
    /\ UNCHANGED <<call, mainVars>>

CallProcessErrors ==
    /\ call.fn = "processErrors"
    /\ ret = Pending
    /\ ret' = Returned(processErrors(call.errors, call.videosById))
    /\ UNCHANGED <<call, mainVars>>

----------------------------------------------------------------------------
(* Inputs *)

\* "-!- Now Playing:<title><delimiter><id>", as the archive serves it
PlayLine(title, delimiter, vidId) ==
    <<AdminMarker, " ", NowPlaying>> \o title \o <<delimiter>> \o vidId \o <<"\n">>

Plain == <<" ", "s">>                \* the title " s"
Episode == <<" ", "7", "x", "7", "7">>   \* the title " 7x77"

LineA == PlayLine(Plain, youtubeDelimiter, <<"a">>)
LineB == PlayLine(Episode, vimeoDelimiter, <<"b">>)
\* twice the same delimiter: the unpacking fails
LineTwoDelimiters ==
    <<AdminMarker, " ", NowPlaying, " ", "s", youtubeDelimiter, "a", youtubeDelimiter, "b", "\n">>

\* the chat-log lines the scans are run over
ScanLines ==
    { LineA, LineB,
      <<AdminMarker, " ", NowPlaying>> \o Tail(Episode) \o <<youtubeDelimiter, "d", "\n">>,
      <<AdminMarker, " ", NowPlaying, " ", "s", "\n">>,
      LineTwoDelimiters,
      <<AdminMarker, " ", NowPlaying, " ", BadByte, youtubeDelimiter, "a", "\n">>,
      <<NowPlaying, " ", "s", youtubeDelimiter, "b", "\n">> }

ScanDirs == { NoDir, Dir({OutputName(Episode, <<"b">>), <<"s", ".", "t", "x", "t">>}) }

ScanFiles == { NoFile, File({<<"a", " ">>, <<"c">>}) }

Args == [requiredPlays : 1..MaxPlays, noPrompt : BOOLEAN]

\* the words parser inputs are put together from
LineWords == { <<NowPlaying>>, <<youtubeDelimiter>>, <<vimeoDelimiter>>,
               <<" ">>, <<"s">>, <<BadByte>> }
ParseLines == {Concat(w) : w \in SeqsUpTo(LineWords, MaxLineWords)}

\* the words file names are put together from
NameWords == { <<"s">>, Separator, <<".">>, <<" ">>, <<"-">> }
FileNames == {Concat(w) : w \in SeqsUpTo(NameWords, MaxNameWords)}

\* error lines: "ERROR", an id and a phrase, with ": " or only " " between them
ErrorLines ==
    { <<"ERROR">> \o d1 \o i \o d2 \o <<p>> :
        d1 \in {ErrorDelimiter, <<" ">>}, d2 \in {ErrorDelimiter, <<" ">>},
        i \in {<<"a">>, <<"b">>, <<"z">>},
        p \in UnavailablePhrases \cup CopyrightPhrases \cup RegionPhrases
              \cup {"HTTP Error 404"} }

ErrorCatalogs == { <<>>, getVideosById(<<LineA, LineB, LineA>>).videos }

----------------------------------------------------------------------------
(* Specifications *)

\* main has not started
Fresh ==
    /\ pc = "start"
    /\ run = 1
    /\ videosById = <<>>
    /\ parseErrors = <<>>
    /\ alreadyDownloadedIds = {}
    /\ knownUnavailableIds = {}
    /\ videosToDownload = <<>>
    /\ urls = <<>>
    /\ loggerErrors = <<>>
    /\ interrupted = FALSE
    /\ newlyUnavailable = NoResult
    /\ fileAtStart = {}
    /\ failedThisRun = {}
    /\ failedLastRun = {}

\* runs of main, one after the other, over the same chat log
Init ==
    /\ chatLog \in SeqsUpTo({LineA, LineB, LineTwoDelimiters}, MaxMainLog)
    /\ targetDir \in {NoDir, Dir({<<"s", ".", "t", "x", "t">>})}
    /\ unavailableFile \in {NoFile, File({<<"b", " ">>})}
    /\ args \in Args
    /\ Fresh
    /\ call = NoCall
    /\ ret = Pending

Next ==
    \/ Scan
    \/ Prompt
    \/ EngineDownloads
    \/ LoggerError
    \/ KeyboardInterrupt
    \/ ReturnLogger
    \/ Reconcile
    \/ NextRun

Spec == Init /\ [][Next]_vars

\* main up to its filter, over every chat log, directory and file tried
ScanInit ==
    /\ chatLog \in SeqsUpTo(ScanLines, MaxLog)
    /\ targetDir \in ScanDirs
    /\ unavailableFile \in ScanFiles
    /\ args \in Args
    /\ Fresh
    /\ call = NoCall
    /\ ret = Pending

ScanSpec == ScanInit /\ [][Scan]_vars

\* one function, called once
UnitInit ==
    /\ call \in {[fn |-> "parseLogLine", logLine |-> l] : l \in ParseLines}
           \cup {[fn |-> "parseId", vidTitle |-> n] : n \in FileNames}
           \cup {[fn |-> "processErrors", errors |-> e, videosById |-> c] :
                    e \in SeqsUpTo(ErrorLines, MaxErrors), c \in ErrorCatalogs}
    /\ ret = Pending
    /\ chatLog = <<>>
    /\ targetDir = NoDir
    /\ unavailableFile = NoFile
    /\ args = [requiredPlays |-> 5, noPrompt |-> FALSE]
    /\ Fresh

UnitNext == CallParseLogLine \/ CallParseId \/ CallProcessErrors

UnitSpec == UnitInit /\ [][UnitNext]_vars

----------------------------------------------------------------------------
(* Properties *)

Scanned == pc # "start"
Ended == pc \in {"done", "crashed"}

\* C1: filterVideos returns exactly the catalog records with playCount >=
\* threshold, an id neither downloaded nor known unavailable, and no episode
\* flag: each such record once, and nothing else.
C1_FilterExact ==
    Scanned =>
        /\ \A i \in 1..Len(videosById) :
              (\E j \in 1..Len(videosToDownload) : videosToDownload[j] = videosById[i])
              <=> /\ videosById[i].playCount >= args.requiredPlays
                  /\ videosById[i].vidId \notin alreadyDownloadedIds
                  /\ videosById[i].vidId \notin knownUnavailableIds
                  /\ ~videosById[i].isAnEpisode
        /\ \A j \in 1..Len(videosToDownload) :
              /\ \E i \in 1..Len(videosById) : videosById[i] = videosToDownload[j]
              /\ \A k \in 1..Len(videosToDownload) :
                    videosToDownload[k] = videosToDownload[j] => k = j

\* a scan that selects a video and leaves out one that has the plays but is
\* already in the target directory, and an episode
C1_Witness ==
    /\ Scanned
    /\ videosToDownload # <<>>
    /\ \E i \in 1..Len(videosById) :
          /\ videosById[i].playCount >= args.requiredPlays
          /\ videosById[i].vidId \in alreadyDownloadedIds
    /\ \E i \in 1..Len(videosById) : videosById[i].isAnEpisode

PlayLines == listAllVideoPlayLines(chatLog)
Parseable(line) == parseLogLine(line).exc = "none"

\* C2: the catalog holds one record per id of a parseable line, whose
\* playCount is the number of parseable lines with that id, and no other
\* record; the lines that fail to parse are set aside, all of them, in order.
C2_CatalogCounts ==
    Scanned =>
        \A lines \in {PlayLines} :
        \A parsed \in {[k \in 1..Len(lines) |-> parseLogLine(lines[k])]} :
            LET carrying(vidId) ==
                    {k \in 1..Len(lines) : parsed[k].exc = "none" /\ parsed[k].vidId = vidId}
                failing == {k \in 1..Len(lines) : parsed[k].exc # "none"}
            IN  /\ \A k \in 1..Len(lines) :
                      parsed[k].exc = "none" =>
                          LET at == {i \in 1..Len(videosById) :
                                        videosById[i].vidId = parsed[k].vidId}
                          IN  /\ Cardinality(at) = 1
                              /\ \A i \in at : videosById[i].playCount
                                                   = Cardinality(carrying(parsed[k].vidId))
                /\ \A i \in 1..Len(videosById) : carrying(videosById[i].vidId) # {}
                /\ Len(parseErrors) = Cardinality(failing)
                /\ \A n \in 1..Len(parseErrors) :
                      \E k \in failing :
                          /\ parseErrors[n] = lines[k]
                          /\ Cardinality({m \in failing : m < k}) = n - 1

\* a line that fails to parse stands between two lines of the same video
C2_Witness ==
    /\ Scanned
    /\ Len(PlayLines) = 3
    /\ Parseable(PlayLines[1])
    /\ ~Parseable(PlayLines[2])
    /\ Parseable(PlayLines[3])
    /\ Len(videosById) = 1
    /\ videosById[1].playCount = 2
    /\ Len(parseErrors) = 1

\* the line holds "Now Playing:" and, after it, one of the two delimiters
MarkerThenDelimiter(line) ==
    \E i, j \in 1..Len(line) :
        /\ i < j
        /\ line[i] = NowPlaying
        /\ line[j] \in {youtubeDelimiter, vimeoDelimiter}

\* C3: parseLogLine raises nothing on a line that holds "Now Playing:"
\* followed by a YouTube or Vimeo delimiter, and returns the title before the
\* delimiter, the id after it and the delimiter's platform tag.
C3_ParseSucceeds ==
    (/\ call.fn = "parseLogLine"
     /\ ret.done
     /\ Decodes(call.logLine)
     /\ MarkerThenDelimiter(call.logLine))
    => /\ ret.value.exc = "none"
       /\ \E d \in {youtubeDelimiter, vimeoDelimiter} :
             /\ ret.value.source = (IF d = youtubeDelimiter THEN "yt" ELSE "vimeo")
             /\ Contains(Strip(call.logLine),
                         <<NowPlaying>> \o ret.value.title \o <<d>> \o ret.value.vidId)

\* C4: no video whose trimmed title matches digit-x-digit-digit is in the
\* output of filterVideos.
C4_EpisodesNeverSelected ==
    \A j \in 1..Len(videosToDownload) : ~episodeRegex(Strip(videosToDownload[j].title))

HasIdentifier(error) == Contains(error, ErrorDelimiter)

\* the text after the first ": " of an error line, up to the next ": "
IdentifierOf(error) ==
    LET rest == SubSeq(error, Find(error, ErrorDelimiter) + Len(ErrorDelimiter), Len(error))
        next == Find(rest, ErrorDelimiter)
    IN  IF next = 0 THEN rest ELSE SubSeq(rest, 1, next - 1)

CapturedIds(errors) ==
    {IdentifierOf(errors[i]) : i \in {k \in 1..Len(errors) : HasIdentifier(errors[k])}}

\* C5: when a run of main has ended, unavailableVideos.txt holds the ids it
\* held when the run started and the ids of the error lines captured in the run.
C5_FileIsUnionAtEnd ==
    Ended => readInUnavailableVideos(unavailableFile)
                 = fileAtStart \cup CapturedIds(loggerErrors)

\* C6: processErrors returns a set that holds the identifier of every error
\* line it was given.
C6_EveryErrorIdReturned ==
    (call.fn = "processErrors" /\ ret.done)
    => /\ ret.value.exc = "none"
       /\ CapturedIds(call.errors) \subseteq ret.value.newlyUnavailable

\* C7: a video the engine reported an error for in one run is not in the
\* filter output of the next run.
C7_FailedNeverResubmitted ==
    (run > 1 /\ Scanned)
    => \A j \in 1..Len(videosToDownload) : videosToDownload[j].vidId \notin failedLastRun

\* C8: a run whose batch was interrupted still reconciles the errors captured
\* before the interrupt and writes unavailableVideos.txt.
C8_InterruptStillPersists ==
    (interrupted /\ Ended)
    => /\ pc = "done"
       /\ unavailableFile.exists
       /\ CapturedIds(loggerErrors) \subseteq readInUnavailableVideos(unavailableFile)

\* C9: no error line makes the reconciliation abort: a run that started its
\* batch reaches the write of unavailableVideos.txt.
C9_ReconciliationNeverAborts ==
    /\ pc # "crashed"
    /\ newlyUnavailable.exc \in {"not called", "none"}

\* the text of a name after its last " - " (the whole name when it has none),
\* up to the first "." in it (to its end when it has none)
AfterLastSeparator(name) ==
    LET hits == {i \in 1..Len(name) : OccursAt(name, Separator, i)}
        last == CHOOSE i \in hits : \A j \in hits : j <= i
    IN  IF hits = {} THEN name ELSE SubSeq(name, last + Len(Separator), Len(name))

UpToFirstDot(text) ==
    LET dots == {i \in 1..Len(text) : text[i] = "."}
    IN  IF dots = {} THEN text
        ELSE SubSeq(text, 1, (CHOOSE i \in dots : \A j \in dots : i <= j) - 1)

\* C10: parseId returns the text between the last " - " of a file name and
\* the first "." after it.
C10_ParseIdBetweenSeparatorAndDot ==
    (call.fn = "parseId" /\ ret.done)
    => ret.value = UpToFirstDot(AfterLastSeparator(call.vidTitle))

====
